---- MODULE Spec2Model ----
(***************************************************************************)
(* Test lifecycle and grading of the interview test platform:              *)
(* create_test (src/app/routes/test.py), submit_test, the results and the  *)
(* deletions (src/app/routes/candidates.py), the live question bank        *)
(* (src/app/routes/questions.py), the categories                           *)
(* (src/app/routes/categories.py) and update_user                          *)
(* (src/app/routes/users.py) over the tables of src/app/models.py.         *)
(*                                                                         *)
(* A request is a process: its position (pc) moves at the points where the *)
(* handler talks to the database, so that two requests can interleave the  *)
(* way two sessions do.  Text is a sequence of one-character strings, so   *)
(* that strip() and upper() are computed and not assumed.                  *)
(***************************************************************************)
EXTENDS Integers, Sequences, FiniteSets, TLC

VARIABLES
    questions,        \* table questions: id -> row              (models.py:61-76)
    tests,            \* table tests: id -> row                  (models.py:80-89)
    candidates,       \* table candidates: id -> row             (models.py:92-98)
    responses,        \* table responses: id -> row              (models.py:104-117)
    users,            \* table users: id -> row                  (models.py:17-28)
    categories,       \* table categories: id -> row             (models.py:34-44)
    next_id,          \* the next primary key of each table
    pc,               \* the position of each request
    request,          \* the body of each request in flight or just answered
    local,            \* the handler's locals that live across a database call
    result            \* what the request returned

vars ==
    <<questions, tests, candidates, responses, users, categories, next_id,
      pc, request, local, result>>

\* the tables of users.py and categories.py
accounts == <<users, categories>>

db == <<questions, tests, candidates, responses, accounts, next_id>>

-----------------------------------------------------------------------------
(* Bounds of the model *)

MaxTests == 1          \* tests stored, one request at a time
MaxResponses == 2      \* responses stored, one request at a time
MaxCreated == 3        \* tests stored, create_test alone
DedupTests == 2        \* tests stored, submissions under few emails
DedupResponses == 2    \* responses stored, submissions under few emails
BankQuestions == 1     \* questions stored, tests built from the bank
BankTests == 1         \* tests stored, tests built from the bank
BankResponses == 1     \* responses stored, tests built from the bank
RaceTests == 1         \* tests stored, two requests at a time
RaceResponses == 2     \* responses stored before a request starts, two at a time
RaceCreated == 2       \* tests stored before a request starts, two at a time
SnapshotTests == 2     \* tests stored, creation and reading of snapshots
DeleteTests == 1       \* tests stored, submissions and deletions
DeleteResponses == 3   \* responses stored, submissions and deletions
ResultsTests == 2      \* tests stored, results read
ResultsResponses == 3  \* responses stored, results read
ResultsRetries == 1    \* regenerations of a test code, results read
AuthTests == 1         \* tests stored, callers of every role
AuthResponses == 2     \* responses stored, callers of every role
TimeTests == 1         \* tests stored, times taken
TimeResponses == 2     \* responses stored, times taken
MaxCategories == 3     \* categories stored, the seeded one included
MaxQuestions == 2      \* questions stored, the bank alone
RetryBound == 6        \* regenerations of a test code the model follows

Procs == {1, 2}

-----------------------------------------------------------------------------
(* Text: Python str as a sequence of characters *)

Whitespace == {" "}

\* str.upper() on the characters the model uses
UpperChar(c) ==
    CASE c = "a" -> "A"
      [] c = "b" -> "B"
      [] c = "c" -> "C"
      [] c = "d" -> "D"
      [] OTHER -> c

upper(s) == [i \in DOMAIN s |-> UpperChar(s[i])]

\* func.lower() on the characters the model uses
LowerChar(c) ==
    CASE c = "A" -> "a"
      [] c = "B" -> "b"
      [] c = "C" -> "c"
      [] c = "D" -> "d"
      [] OTHER -> c

lower(s) == [i \in DOMAIN s |-> LowerChar(s[i])]

RECURSIVE lstrip(_)
lstrip(s) ==
    IF s # <<>> /\ Head(s) \in Whitespace THEN lstrip(Tail(s)) ELSE s

RECURSIVE rstrip(_)
rstrip(s) ==
    IF s # <<>> /\ s[Len(s)] \in Whitespace
    THEN rstrip(SubSeq(s, 1, Len(s) - 1))
    ELSE s

\* str.strip()
strip(s) == rstrip(lstrip(s))

\* `not s or not s.strip()`
IsBlank(s) == s = <<>> \/ strip(s) = <<>>

Digit(d) ==
    CASE d = 0 -> "0" [] d = 1 -> "1" [] d = 2 -> "2" [] d = 3 -> "3"
      [] d = 4 -> "4" [] d = 5 -> "5" [] d = 6 -> "6" [] d = 7 -> "7"
      [] d = 8 -> "8" [] d = 9 -> "9"

\* str(n) of an int n
RECURSIVE str(_)
str(n) ==
    IF n < 0 THEN <<"-">> \o str(0 - n)
    ELSE IF n < 10 THEN <<Digit(n)>>
    ELSE str(n \div 10) \o <<Digit(n % 10)>>

-----------------------------------------------------------------------------
(* Python int: unbounded.  n stands for n.hi * 2^64 + n.lo, with n.lo in the
   range of a signed 32-bit integer, so that a value too large for an
   INTEGER column of any backend can be written without leaving the
   model's arithmetic. *)

PyInt(h, l) == [hi |-> h, lo |-> l]

\* Column(Integer): the values the column takes; any other value makes the
\* INSERT fail (models.py:112, time_taken)
FitsInteger(n) == n.hi = 0

-----------------------------------------------------------------------------
(* Inputs *)

Nil == [nil |-> TRUE]

\* schemas.TestQuestionData (the fields the handlers read)
Q(id, ans, opts, text) ==
    [question_id |-> id, answer |-> ans, options |-> opts, question |-> text]

QA1 == Q(1, <<"A">>, {<<"A">>, <<"B">>}, <<"q">>)
Qb2 == Q(2, <<"b">>, {<<"a">>, <<"b">>}, <<"q">>)
QB1 == Q(1, <<"B">>, {<<"A">>, <<"B">>}, <<"q">>)
QC3 == Q(3, <<"C">>, {<<"A">>, <<"B">>}, <<"q">>)
QC2 == Q(2, <<"C">>, {<<"A">>, <<"B">>, <<"C">>, <<"D">>}, <<"q">>)

\* schemas.TestCreate.questions: the bodies of the create_test requests
QuestionLists == { <<>>, <<QB1>>, <<QA1, Qb2>>, <<QC3>> }

Qa4 == Q(4, <<"a">>, {<<"A">>, <<"B">>}, <<"q">>)
QBlankText == Q(5, <<"A">>, {<<"A">>}, <<" ">>)
QNoOptions == Q(6, <<"A">>, {}, <<"q">>)
QBlankAnswer == Q(7, <<" ">>, {<<"A">>}, <<"q">>)

\* the bodies of the create_test requests that pass or break each rule of
\* the snapshot builder, at the first or at a later question
SnapshotLists ==
    { <<>>, <<QB1>>, <<QA1, Qb2>>, <<Qa4>>, <<QA1, QC3>>, <<QC3, QBlankText>>,
      <<Qa4, QBlankText>>, <<QNoOptions>>, <<QBlankAnswer>> }

\* the bodies of the create_test requests of one question
OneQuestionLists == { <<>>, <<QB1>> }

\* generate_test_code(): TEST- and 8 hex digits; three of the 16^8 codes
generate_test_code == {"TEST-0000000A", "TEST-0000000B", "TEST-0000000C"}

Emails == {"e1@x.io", "e2@x.io"}

Names == { <<" ">>, <<"x">>, <<"y", " ">> }

TimesTaken == { PyInt(0, 75), PyInt(1, 0) }

\* schemas.AnswerItem
Ans(qid, sel) == [questionId |-> qid, selected |-> sel]

AnswerLists ==
    { <<Ans(<<"1">>, <<"b">>)>>,
      <<Ans(<<"1">>, <<"a">>)>>,
      <<Ans(<<"1">>, <<"a">>), Ans(<<"2">>, <<" ", "B">>)>>,
      <<Ans(<<"1">>, <<"A">>), Ans(<<"2">>, <<"a">>)>>,
      <<Ans(<<"1">>, <<"b">>), Ans(<<"2">>, <<"A">>)>>,
      <<Ans(<<"1">>, <<"A">>), Ans(<<"9">>, <<"B">>)>>,
      <<Ans(<<"1">>, <<"A">>), Ans(<<"1">>, <<"A">>)>>,
      <<Ans(<<"2">>, <<"b">>), Ans(<<"1">>, <<" ">>)>>,
      <<Ans(<<"1">>, <<>>), Ans(<<"2">>, <<" ">>)>> }

\* schemas.CandidateCreate: the submissions that vary the answers
Submissions ==
    [testId : generate_test_code, name : {<<" ">>, <<"x">>}, email : {"e1@x.io"},
     timeTaken : TimesTaken, answers : AnswerLists]

\* the submissions that vary the candidate and the test
DedupSubmissions ==
    [testId : generate_test_code, name : {<<"x">>, <<"y", " ">>}, email : Emails,
     timeTaken : {PyInt(0, 75)},
     answers : { <<Ans(<<"1">>, <<"b">>)>> }]

\* the submissions to tests built from the bank
BankSubmissions ==
    [testId : generate_test_code, name : {<<"x">>}, email : {"e1@x.io"},
     timeTaken : {PyInt(0, 75)},
     answers : { <<Ans(<<"1">>, <<"a">>)>>,
                 <<Ans(<<"1">>, <<"b">>)>> }]

\* the submissions of two candidates to be deleted
DeleteSubmissions ==
    [testId : generate_test_code, name : {<<"x">>}, email : Emails,
     timeTaken : {PyInt(0, 75)},
     answers : { <<Ans(<<"1">>, <<"b">>)>> }]

\* the bodies of the create_test requests whose results are listed
ResultLists == { <<QB1>>, <<QB1, QC2>> }

\* the submissions whose results are listed: of one or two answers, right,
\* wrong or to an unknown question, in less or more than a minute
ResultSubmissions ==
    [testId : generate_test_code, name : {<<"x">>}, email : {"e1@x.io"},
     timeTaken : {PyInt(0, 45)},
     answers : { <<Ans(<<"1">>, <<"b">>)>> }]
    \cup
    [testId : generate_test_code, name : {<<"x">>}, email : {"e2@x.io"},
     timeTaken : {PyInt(0, 75)},
     answers : { <<Ans(<<"9">>, <<"b">>)>>,
                 <<Ans(<<"1">>, <<"b">>), Ans(<<"2">>, <<"d">>)>> }]

\* the test_code query parameter of get_all_results: absent, empty, a code
TestCodeQueries == {<<>>, <<"">>} \cup { <<code>> : code \in generate_test_code }

\* the submissions that vary the time taken: negative, under a minute, a
\* minute and more, a hundred minutes
TimeSubmissions ==
    [testId : generate_test_code, name : {<<"x">>}, email : {"e1@x.io"},
     timeTaken : { PyInt(0, -5), PyInt(0, 0), PyInt(0, 9), PyInt(0, 59),
                   PyInt(0, 60), PyInt(0, 3599), PyInt(0, 6000) },
     answers : { <<Ans(<<"1">>, <<"b">>)>> }]

\* the submissions of two requests at a time
RaceSubmissions ==
    [testId : generate_test_code, name : {<<"x">>, <<"y", " ">>}, email : Emails,
     timeTaken : {PyInt(0, 75)},
     answers : { <<Ans(<<"1">>, <<"b">>)>> }]

-----------------------------------------------------------------------------
(* Tables *)

Rows(table) == DOMAIN table

Insert(table, id, row) == [i \in Rows(table) \cup {id} |-> IF i = id THEN row ELSE table[i]]

Delete(table, ids) == [i \in Rows(table) \ ids |-> table[i]]

Empty == [i \in {} |-> Nil]

\* TestByCode without the filter: the first test there is
TestByCode_Any(code) ==
    IF Rows(tests) # {} THEN CHOOSE t \in Rows(tests) : TRUE ELSE 0

\* db.query(models.Test).filter(models.Test.test_code == code).first()
TestByCode(code) ==
    IF \E t \in Rows(tests) : tests[t].test_code = code
    THEN CHOOSE t \in Rows(tests) : tests[t].test_code = code
    ELSE 0

\* CandidateByEmail that finds no row
CandidateByEmail_Missed(email) == 0

\* db.query(models.Candidate).filter(models.Candidate.email == email).first()
CandidateByEmail(email) ==
    IF \E c \in Rows(candidates) : candidates[c].email = email
    THEN CHOOSE c \in Rows(candidates) : candidates[c].email = email
    ELSE 0

\* what a handler returned: the HTTP status, the error it names, the id of the
\* row it stored (0: none) and the payload of a success
NoResult == [status |-> 0, error |-> "", id |-> 0, payload |-> Nil]

Returned(status, error, id, payload) ==
    [status |-> status, error |-> error, id |-> id, payload |-> payload]

\* the locals of a handler: op names the handler that runs; created says that
\* this request inserted the candidate row local.candidate
\* codes are the test codes generated so far, the last one being test_code
NoLocal ==
    [op |-> "", codes |-> <<>>, test |-> 0, candidate |-> 0, created |-> FALSE]

Locals(op) == [NoLocal EXCEPT !.op = op]

\* seed_roles: the table roles, which no handler of this model changes
Roles == (1 :> "Admin") @@ (2 :> "Creator")

\* hash_password(password): a text that is not the password
hash_password(password) == <<"$">> \o password

\* seed_users: an Admin and a Creator
SeedUsers ==
    (1 :> [name |-> <<"A">>, email |-> "admin@gmail.com",
           password |-> hash_password(<<"a">>), role_id |-> 1])
    @@ (2 :> [name |-> <<"C">>, email |-> "creator@gmail.com",
              password |-> hash_password(<<"c">>), role_id |-> 2])

\* one category, stored by create_category for the Creator (seed_categories
\* stores none: it reads Category.parent_category, which models.Category
\* does not have, and seed() rolls back)
InitialCategories ==
    (1 :> [name |-> <<"D">>, description |-> <<>>, user_id |-> 2])

\* the tables after seed.py and the first category
Init ==
    /\ questions = Empty
    /\ tests = Empty
    /\ candidates = Empty
    /\ responses = Empty
    /\ users = SeedUsers
    /\ categories = InitialCategories
    /\ next_id = [questions |-> 1, tests |-> 1, candidates |-> 1, responses |-> 1,
                  categories |-> 2]
    /\ pc = [p \in Procs |-> "idle"]
    /\ request = [p \in Procs |-> Nil]
    /\ local = [p \in Procs |-> NoLocal]
    /\ result = [p \in Procs |-> NoResult]

\* a request slot takes a new request once the last answer was delivered
Free(p) == pc[p] = "idle"

\* the answer is delivered: the request and its locals are gone
finish(p) ==
    /\ pc[p] = "done"
    /\ pc' = [pc EXCEPT ![p] = "idle"]
    /\ request' = [request EXCEPT ![p] = Nil]
    /\ local' = [local EXCEPT ![p] = NoLocal]
    /\ result' = [result EXCEPT ![p] = NoResult]
    /\ UNCHANGED db

\* the handler returns
Return(p, res) ==
    /\ pc' = [pc EXCEPT ![p] = "done"]
    /\ result' = [result EXCEPT ![p] = res]

-----------------------------------------------------------------------------
(* create_test *)

\* the handler's local test_code: the code generated last
test_code(p) == local[p].codes[Len(local[p].codes)]

\* the calls of generate_test_code() inside the while loop
retries(p) == Len(local[p].codes) - 1

\* ValidQuestion without the rule that the answer is a key of the options
ValidQuestion_NoKeyCheck(q) ==
    /\ ~IsBlank(q.question)
    /\ q.options # {}
    /\ ~IsBlank(q.answer)

\* Question Snapshot Builder: the rules a question list passes before a test
\* is stored
ValidQuestion(q) ==
    /\ ~IsBlank(q.question)
    /\ q.options # {}
    /\ ~IsBlank(q.answer)
    /\ \E k \in q.options : upper(k) = upper(q.answer)

\* ValidQuestions looking at the first question only
ValidQuestions_FirstOnly(qs) ==
    /\ qs # <<>>
    /\ ValidQuestion(qs[1])

ValidQuestions(qs) ==
    /\ qs # <<>>
    /\ \A i \in DOMAIN qs : ValidQuestion(qs[i])

\* the rule a question breaks, the first in the order of the builder
BrokenRule(q) ==
    IF IsBlank(q.question) THEN "question"
    ELSE IF q.options = {} THEN "options"
    ELSE IF IsBlank(q.answer) THEN "answer"
    ELSE IF ~\E k \in q.options : upper(k) = upper(q.answer) THEN "answer not in options"
    ELSE ""

\* what the validation error identifies: the position of the first question
\* that breaks a rule (0: the list is empty) and the rule
Rejection(qs) ==
    IF qs = <<>> THEN [index |-> 0, rule |-> "empty"]
    ELSE LET index == CHOOSE i \in DOMAIN qs :
                          /\ BrokenRule(qs[i]) # ""
                          /\ \A j \in 1 .. i - 1 : BrokenRule(qs[j]) = ""
         IN [index |-> index, rule |-> BrokenRule(qs[index])]

\* the frozen snapshot of the request's questions
BuildSnapshot(qs) == qs

\* db.query(models.Test).filter(models.Test.test_code == test_code).first()
CodeTaken(code) == TestByCode(code) # 0

\* the handler up to its first generate_test_code()
ct_begin(p, test_data) ==
    /\ Free(p)
    /\ request' = [request EXCEPT ![p] = test_data]
    /\ UNCHANGED db
    /\ IF ~ValidQuestions(test_data)
       THEN /\ Return(p, Returned(400, "questions", 0, Rejection(test_data)))
            /\ local' = [local EXCEPT ![p] = Locals("create_test")]
       ELSE /\ \E code \in generate_test_code :
                 local' = [local EXCEPT ![p] =
                              [Locals("create_test") EXCEPT !.codes = <<code>>]]
            /\ pc' = [pc EXCEPT ![p] = "ct_check"]
            /\ result' = [result EXCEPT ![p] = NoResult]

\* ct_check with `if` for `while`: one regeneration, then on to the INSERT
ct_check_Once(p) ==
    /\ pc[p] = "ct_check"
    /\ UNCHANGED <<db, request, result>>
    /\ pc' = [pc EXCEPT ![p] = "ct_store"]
    /\ IF CodeTaken(test_code(p))
       THEN \E code \in generate_test_code :
               local' = [local EXCEPT ![p].codes = Append(local[p].codes, code)]
       ELSE UNCHANGED local

\* while <a test has test_code>: test_code = generate_test_code()
ct_check(p) ==
    /\ pc[p] = "ct_check"
    /\ UNCHANGED <<db, request, result>>
    /\ IF CodeTaken(test_code(p))
       THEN /\ \E code \in generate_test_code :
                 local' = [local EXCEPT ![p].codes = Append(local[p].codes, code)]
            /\ UNCHANGED pc
       ELSE /\ pc' = [pc EXCEPT ![p] = "ct_store"]
            /\ UNCHANGED local

\* db.add(db_test); db.commit(): test_code is unique=True, so the INSERT of a
\* code that a test has by now raises IntegrityError (an unhandled 500)
ct_store(p) ==
    /\ pc[p] = "ct_store"
    /\ UNCHANGED <<accounts, questions, candidates, responses, request, local>>
    /\ IF CodeTaken(test_code(p))
       THEN /\ Return(p, Returned(500, "IntegrityError", 0, Nil))
            /\ UNCHANGED <<tests, next_id>>
       ELSE /\ tests' = Insert(tests, next_id.tests,
                               [test_code |-> test_code(p),
                                questions_data |-> BuildSnapshot(request[p])])
            /\ next_id' = [next_id EXCEPT !.tests = next_id.tests + 1]
            /\ Return(p, Returned(200, "", next_id.tests,
                                [test_code |-> test_code(p),
                                 question_count |-> Len(request[p])]))

\* the body of the answer of get_test_by_code
TestDetail(test_id) ==
    [id |-> test_id,
     test_code |-> tests[test_id].test_code,
     questions_data |-> tests[test_id].questions_data]

get_test_by_code(p, code) ==
    /\ Free(p)
    /\ request' = [request EXCEPT ![p] = code]
    /\ local' = [local EXCEPT ![p] = Locals("get_test_by_code")]
    /\ UNCHANGED db
    /\ LET db_test == TestByCode(code)
       IN IF db_test = 0
          THEN Return(p, Returned(404, "test", 0, Nil))
          ELSE Return(p, Returned(200, "", db_test, TestDetail(db_test)))

-----------------------------------------------------------------------------
(* submit_test *)

\* the positions, counted from 1, of the answers with no selected option:
\* `not answer.selected or not answer.selected.strip()`
BlankSelected(answers) ==
    {idx \in DOMAIN answers : IsBlank(answers[idx].selected)}

\* FirstBlank counting the answers from 0: enumerate without start=1
FirstBlank_FromZero(answers) ==
    (CHOOSE idx \in BlankSelected(answers) :
        \A other \in BlankSelected(answers) : idx <= other) - 1

\* the idx at which the loop of Validation 4 returns
FirstBlank(answers) ==
    CHOOSE idx \in BlankSelected(answers) :
        \A other \in BlankSelected(answers) : idx <= other

\* what the error message of a rejected submission names: the position of
\* the answer for "selected", nothing otherwise
Named(v, sub) ==
    IF v.error = "selected" THEN [question |-> FirstBlank(sub.answers)] ELSE Nil

\* Validate without Validation 3, the comparison of the two counts
Validate_NoCountCheck(sub) ==
    LET test == TestByCode(sub.testId) IN
    IF IsBlank(sub.name) THEN [status |-> 400, error |-> "name"]
    ELSE IF test = 0 THEN [status |-> 404, error |-> "test"]
    ELSE IF BlankSelected(sub.answers) # {}
         THEN [status |-> 400, error |-> "selected"]
    ELSE [status |-> 200, error |-> ""]

\* Validation 1..4 of the handler, in its order; status 200 when the
\* submission passes
Validate(sub) ==
    LET test == TestByCode(sub.testId) IN
    IF IsBlank(sub.name) THEN [status |-> 400, error |-> "name"]
    ELSE IF test = 0 THEN [status |-> 404, error |-> "test"]
    ELSE IF Len(sub.answers) # Len(tests[test].questions_data)
         THEN [status |-> 400, error |-> "count"]
    ELSE IF BlankSelected(sub.answers) # {}
         THEN [status |-> 400, error |-> "selected"]
    ELSE [status |-> 200, error |-> ""]

\* questions_map = {str(q["question_id"]): q for q in questions_data}: a later
\* question of the list replaces an earlier one under the same key
InMap(questions_data, key) ==
    \E i \in DOMAIN questions_data : str(questions_data[i].question_id) = key

questions_map(questions_data, key) ==
    LET last == CHOOSE i \in DOMAIN questions_data :
                    /\ str(questions_data[i].question_id) = key
                    /\ \A j \in DOMAIN questions_data :
                          str(questions_data[j].question_id) = key => j <= i
    IN questions_data[last]

\* ValidatedAnswer comparing with question["answer"] as stored, not uppercased
ValidatedAnswer_NoUpper(answer_item, question) ==
    LET selected_option == upper(strip(answer_item.selected))
        correct_answer == question.answer
    IN [questionId |-> answer_item.questionId,
        selected |-> selected_option,
        correct |-> correct_answer,
        isCorrect |-> (selected_option = correct_answer)]

\* one entry of validated_answers
ValidatedAnswer(answer_item, question) ==
    LET selected_option == upper(strip(answer_item.selected))
        correct_answer == upper(question.answer)
    IN [questionId |-> answer_item.questionId,
        selected |-> selected_option,
        correct |-> correct_answer,
        isCorrect |-> (selected_option = correct_answer)]

\* validated_answers recording an answer with an unknown id as incorrect
\* instead of skipping it
RECURSIVE validated_answers_KeepUnknown(_, _)
validated_answers_KeepUnknown(answers, questions_data) ==
    IF answers = <<>> THEN <<>>
    ELSE LET answer_item == Head(answers)
             rest == validated_answers_KeepUnknown(Tail(answers), questions_data)
         IN IF InMap(questions_data, answer_item.questionId)
            THEN <<ValidatedAnswer(answer_item,
                        questions_map(questions_data, answer_item.questionId))>> \o rest
            ELSE <<[questionId |-> answer_item.questionId,
                    selected |-> upper(strip(answer_item.selected)),
                    correct |-> <<>>,
                    isCorrect |-> FALSE]>> \o rest

\* the loop over submission.answers: an answer whose question is not in the
\* map adds no entry
RECURSIVE validated_answers(_, _)
validated_answers(answers, questions_data) ==
    IF answers = <<>> THEN <<>>
    ELSE LET answer_item == Head(answers)
             rest == validated_answers(Tail(answers), questions_data)
         IN IF InMap(questions_data, answer_item.questionId)
            THEN <<ValidatedAnswer(answer_item,
                        questions_map(questions_data, answer_item.questionId))>> \o rest
            ELSE rest

\* correct_count incremented for every entry, correct or not
correct_count_EveryEntry(validated) == Len(validated)

\* correct_count: incremented once for each entry with is_correct
correct_count(validated) ==
    Cardinality({i \in DOMAIN validated : validated[i].isCorrect})

\* f"{correct_count}/{len(validated_answers)}"
ScoreString(correct, total) == str(correct) \o <<"/">> \o str(total)

\* the handler up to the query for the candidate
st_begin(p, sub) ==
    /\ Free(p)
    /\ request' = [request EXCEPT ![p] = sub]
    /\ UNCHANGED db
    /\ LET v == Validate(sub)
           db_candidate == CandidateByEmail(sub.email)
       IN IF v.status # 200
          THEN /\ Return(p, Returned(v.status, v.error, 0, Named(v, sub)))
               /\ local' = [local EXCEPT ![p] = Locals("submit_test")]
          ELSE /\ local' = [local EXCEPT ![p] =
                               [Locals("submit_test") EXCEPT
                                               !.test = TestByCode(sub.testId),
                                               !.candidate = db_candidate]]
               /\ pc' = [pc EXCEPT ![p] =
                            IF db_candidate = 0 THEN "st_insert" ELSE "st_respond"]
               /\ result' = [result EXCEPT ![p] = NoResult]

\* db.add(db_candidate); db.commit(): email is unique=True, so the INSERT of an
\* email that a candidate has by now raises IntegrityError (an unhandled 500)
st_insert(p) ==
    /\ pc[p] = "st_insert"
    /\ UNCHANGED <<accounts, questions, tests, responses, request>>
    /\ IF CandidateByEmail(request[p].email) # 0
       THEN /\ Return(p, Returned(500, "IntegrityError", 0, Nil))
            /\ UNCHANGED <<candidates, next_id, local>>
       ELSE /\ candidates' = Insert(candidates, next_id.candidates,
                                    [name |-> strip(request[p].name),
                                     email |-> request[p].email])
            /\ next_id' = [next_id EXCEPT !.candidates = next_id.candidates + 1]
            /\ local' = [local EXCEPT ![p].candidate = next_id.candidates,
                                      ![p].created = TRUE]
            /\ pc' = [pc EXCEPT ![p] = "st_respond"]
            /\ UNCHANGED result

\* the frozen questions joined again with the live bank: the answer of the
\* live row where there is one
FrozenQuestions_Live(test_id) ==
    [j \in DOMAIN tests[test_id].questions_data |->
        LET q == tests[test_id].questions_data[j]
        IN IF q.question_id \in Rows(questions)
           THEN [q EXCEPT !.answer = questions[q.question_id].correct_option]
           ELSE q]

\* questions_data = json.loads(test.questions_data)
FrozenQuestions(test_id) == tests[test_id].questions_data

\* the name of the request body in place of the name of the row
db_candidate_name_Submitted(p) == strip(request[p].name)

\* db_candidate.name in the success payload: the name of the candidate row,
\* found by email or inserted by this request
db_candidate_name(p) == candidates[local[p].candidate].name

\* the INSERT of the response fails when time_taken does not fit the column
\* or when candidate_id references no row (ForeignKey candidates.id)
ResponseInsertFails(p) ==
    \/ ~FitsInteger(request[p].timeTaken)
    \/ local[p].candidate \notin Rows(candidates)

\* grading, db.add(db_response), db.commit() and the success payload;
\* answered_at is the time of the INSERT (server_default=func.now()), later
\* for a later INSERT
st_respond(p) ==
    /\ pc[p] = "st_respond"
    /\ UNCHANGED <<accounts, questions, tests, candidates, request, local>>
    /\ LET questions_data == FrozenQuestions(local[p].test)
           validated == validated_answers(request[p].answers, questions_data)
           correct == correct_count(validated)
       IN IF ResponseInsertFails(p)
          THEN /\ Return(p, Returned(500, "DBAPIError", 0, Nil))
               /\ UNCHANGED <<responses, next_id>>
          ELSE /\ responses' = Insert(responses, next_id.responses,
                                      [candidate_id |-> local[p].candidate,
                                       test_id |-> local[p].test,
                                       answers |-> validated,
                                       score |-> correct,
                                       time_taken |-> request[p].timeTaken.lo,
                                       answered_at |-> next_id.responses])
               /\ next_id' = [next_id EXCEPT !.responses = next_id.responses + 1]
               /\ Return(p, Returned(200, "", next_id.responses,
                                     [candidate_id |-> local[p].candidate,
                                      name |-> db_candidate_name(p),
                                      email |-> candidates[local[p].candidate].email,
                                      test_code |-> tests[local[p].test].test_code,
                                      score |-> ScoreString(correct, Len(validated))]))

-----------------------------------------------------------------------------
(* get_candidate_result, get_all_results *)

\* f"{n:02d}" of an int n >= 0
TwoDigits(n) == IF n < 10 THEN <<"0">> \o str(n) ELSE str(n)

format_time(seconds) ==
    IF seconds < 60
    THEN str(seconds) \o <<"s">>
    ELSE TwoDigits(seconds \div 60) \o <<":">> \o TwoDigits(seconds % 60)

\* int((correct_answers / total_questions * 100)) if total_questions > 0
\* else 0; the float product and its truncation are the floor of the exact
\* quotient for the totals of this model (up to 3)
score_percentage(correct_answers, total_questions) ==
    IF total_questions > 0
    THEN (correct_answers * 100) \div total_questions
    ELSE 0

\* db.query(models.Response).filter(candidate_id == ...).first(): a row of
\* the candidate, 0 when there is none
ResponseOfCandidate(candidate_id) ==
    IF \E r \in Rows(responses) : responses[r].candidate_id = candidate_id
    THEN CHOOSE r \in Rows(responses) : responses[r].candidate_id = candidate_id
    ELSE 0

\* the handler returns 404 for a candidate or a response that is missing;
\* then it reads candidate.test_id, an attribute models.Candidate does not
\* have: AttributeError, an unhandled 500
get_candidate_result(p, candidate_id) ==
    /\ Free(p)
    /\ request' = [request EXCEPT ![p] = candidate_id]
    /\ local' = [local EXCEPT ![p] = Locals("get_candidate_result")]
    /\ UNCHANGED db
    /\ IF candidate_id \notin Rows(candidates)
       THEN Return(p, Returned(404, "candidate", 0, Nil))
       ELSE IF ResponseOfCandidate(candidate_id) = 0
       THEN Return(p, Returned(404, "response", 0, Nil))
       ELSE Return(p, Returned(500, "AttributeError", 0, Nil))

\* `if test_code:` of an Optional[str]: neither None nor the empty string
Given(code) == code # <<>> /\ code # <<"">>

\* MostRecentFirst with the order of the INSERTs: order_by(answered_at)
\* without desc()
RECURSIVE OldestFirst(_)
OldestFirst(ids) ==
    IF ids = {} THEN <<>>
    ELSE LET oldest == CHOOSE r \in ids :
                           \A other \in ids :
                              responses[r].answered_at <= responses[other].answered_at
         IN <<oldest>> \o OldestFirst(ids \ {oldest})

\* query.order_by(models.Response.answered_at.desc()).all()
RECURSIVE MostRecentFirst(_)
MostRecentFirst(ids) ==
    IF ids = {} THEN <<>>
    ELSE LET latest == CHOOSE r \in ids :
                          \A other \in ids :
                             responses[other].answered_at <= responses[r].answered_at
         IN <<latest>> \o MostRecentFirst(ids \ {latest})

\* schemas.CandidateListItem of a response
ListItem(response_id) ==
    LET response == responses[response_id]
        candidate == candidates[response.candidate_id]
        test == tests[response.test_id]
        total_questions == Len(response.answers)
        correct_answers == response.score
    IN [id |-> response_id,
        name |-> candidate.name,
        email |-> candidate.email,
        test_code |-> test.test_code,
        score |-> ScoreString(correct_answers, total_questions),
        score_percentage |-> score_percentage(correct_answers, total_questions),
        time_taken_formatted |-> format_time(response.time_taken),
        created_at |-> response.answered_at]

get_all_results(p, code) ==
    /\ Free(p)
    /\ request' = [request EXCEPT ![p] = code]
    /\ local' = [local EXCEPT ![p] = Locals("get_all_results")]
    /\ UNCHANGED db
    /\ IF Given(code) /\ TestByCode(code[1]) = 0
       THEN Return(p, Returned(404, "test", 0, Nil))
       ELSE LET query == IF Given(code)
                         THEN {r \in Rows(responses) :
                                  responses[r].test_id = TestByCode(code[1])}
                         ELSE Rows(responses)
                ordered == MostRecentFirst(query)
            IN Return(p, Returned(200, "", 0,
                                  [i \in DOMAIN ordered |-> ListItem(ordered[i])]))

-----------------------------------------------------------------------------
(* delete_candidate, delete_response *)

\* delete_candidate without the DELETE of the candidate's responses
delete_candidate_KeepResponses(p, candidate_id) ==
    /\ Free(p)
    /\ request' = [request EXCEPT ![p] = candidate_id]
    /\ local' = [local EXCEPT ![p] = Locals("delete_candidate")]
    /\ UNCHANGED <<accounts, questions, tests, next_id, responses>>
    /\ IF candidate_id \notin Rows(candidates)
       THEN /\ Return(p, Returned(404, "candidate", 0, Nil))
            /\ UNCHANGED candidates
       ELSE /\ candidates' = Delete(candidates, {candidate_id})
            /\ Return(p, Returned(200, "", candidate_id, Nil))

delete_candidate(p, candidate_id) ==
    /\ Free(p)
    /\ request' = [request EXCEPT ![p] = candidate_id]
    /\ local' = [local EXCEPT ![p] = Locals("delete_candidate")]
    /\ UNCHANGED <<accounts, questions, tests, next_id>>
    /\ IF candidate_id \notin Rows(candidates)
       THEN /\ Return(p, Returned(404, "candidate", 0, Nil))
            /\ UNCHANGED <<candidates, responses>>
       ELSE /\ responses' = Delete(responses,
                   {r \in Rows(responses) : responses[r].candidate_id = candidate_id})
            /\ candidates' = Delete(candidates, {candidate_id})
            /\ Return(p, Returned(200, "", candidate_id, Nil))

\* delete_response that removes every response of the response's candidate
delete_response_OfCandidate(p, response_id) ==
    /\ Free(p)
    /\ request' = [request EXCEPT ![p] = response_id]
    /\ local' = [local EXCEPT ![p] = Locals("delete_response")]
    /\ UNCHANGED <<accounts, questions, tests, candidates, next_id>>
    /\ IF response_id \notin Rows(responses)
       THEN /\ Return(p, Returned(404, "response", 0, Nil))
            /\ UNCHANGED responses
       ELSE /\ responses' = Delete(responses,
                   {r \in Rows(responses) :
                       responses[r].candidate_id = responses[response_id].candidate_id})
            /\ Return(p, Returned(200, "", response_id, Nil))

delete_response(p, response_id) ==
    /\ Free(p)
    /\ request' = [request EXCEPT ![p] = response_id]
    /\ local' = [local EXCEPT ![p] = Locals("delete_response")]
    /\ UNCHANGED <<accounts, questions, tests, candidates, next_id>>
    /\ IF response_id \notin Rows(responses)
       THEN /\ Return(p, Returned(404, "response", 0, Nil))
            /\ UNCHANGED responses
       ELSE /\ responses' = Delete(responses, {response_id})
            /\ Return(p, Returned(200, "", response_id, Nil))

-----------------------------------------------------------------------------
(* The callers of the handlers of candidates.py *)

\* the caller of a request: Anonymous sends no valid token, the others are
\* users with the role of that name
Anonymous == "Anonymous"

Callers == {Anonymous, "Admin", "Creator", "Viewer"}

\* the dependency require_admin: the status it lets the request end with,
\* 200 when the handler runs
require_admin(caller) ==
    IF caller = Anonymous THEN 401
    ELSE IF caller # "Admin" THEN 403
    ELSE 200

\* the dependency require_creator_or_admin
require_creator_or_admin(caller) ==
    IF caller = Anonymous THEN 401
    ELSE IF caller \notin {"Creator", "Admin"} THEN 403
    ELSE 200

\* the dependency raised HTTPException: the handler op did not run
Denied(p, op, parameter, status) ==
    /\ Free(p)
    /\ request' = [request EXCEPT ![p] = parameter]
    /\ local' = [local EXCEPT ![p] = Locals(op)]
    /\ UNCHANGED db
    /\ Return(p, Returned(status, "credentials", 0, Nil))

\* DELETE /candidates/response/{response_id} open to Creator as well
delete_response_route_ForCreator(p, caller, response_id) ==
    IF require_creator_or_admin(caller) = 200
    THEN delete_response(p, response_id)
    ELSE Denied(p, "delete_response", response_id, require_creator_or_admin(caller))

\* DELETE /candidates/response/{response_id}
delete_response_route(p, caller, response_id) ==
    IF require_admin(caller) = 200
    THEN delete_response(p, response_id)
    ELSE Denied(p, "delete_response", response_id, require_admin(caller))

\* DELETE /candidates/{candidate_id}
delete_candidate_route(p, caller, candidate_id) ==
    IF require_admin(caller) = 200
    THEN delete_candidate(p, candidate_id)
    ELSE Denied(p, "delete_candidate", candidate_id, require_admin(caller))

\* GET /candidates/result/{candidate_id}
get_candidate_result_route(p, caller, candidate_id) ==
    IF require_creator_or_admin(caller) = 200
    THEN get_candidate_result(p, candidate_id)
    ELSE Denied(p, "get_candidate_result", candidate_id,
                require_creator_or_admin(caller))

\* GET /candidates/results
get_all_results_route(p, caller, code) ==
    IF require_creator_or_admin(caller) = 200
    THEN get_all_results(p, code)
    ELSE Denied(p, "get_all_results", code, require_creator_or_admin(caller))

-----------------------------------------------------------------------------
(* The live question bank: create_question, update_question, delete_question *)

\* an Optional field of a request body: <<>> is None, <<v>> is the value v
None == <<>>

Some(v) == <<v>>

\* the rows of table categories
Categories == Rows(categories)

\* schemas.QuestionCreate (the fields the handlers validate and store);
\* options maps an option key to its text
QuestionCreate(category_id, question_text, options, correct_option) ==
    [category_id |-> category_id, question_text |-> question_text,
     options |-> options, correct_option |-> correct_option]

OptionsAB == (<<"a">> :> <<"x">>) @@ (<<"b">> :> <<"y">>)

OptionsB == (<<"b">> :> <<"y">>)

OptionsBlank == (<<"a">> :> <<" ">>)

QuestionCreates ==
    { QuestionCreate(1, <<"q">>, OptionsAB, <<"a">>),
      QuestionCreate(1, <<" ">>, OptionsAB, <<"a">>),
      QuestionCreate(1, <<"q">>, OptionsB, <<"a">>),
      QuestionCreate(2, <<"q">>, OptionsAB, <<"a">>) }

\* schemas.QuestionUpdate: every field is Optional
QuestionUpdate(category_id, question_text, options, correct_option) ==
    [category_id |-> category_id, question_text |-> question_text,
     options |-> options, correct_option |-> correct_option]

QuestionUpdates ==
    { QuestionUpdate(None, None, None, Some(<<"b">>)),
      QuestionUpdate(None, None, None, Some(<<"a">>)),
      QuestionUpdate(None, None, Some(OptionsB), None),
      QuestionUpdate(None, Some(<<"r">>), Some(OptionsB), Some(<<"b">>)),
      QuestionUpdate(None, Some(<<" ">>), None, Some(<<"b">>)),
      QuestionUpdate(Some(2), None, None, Some(<<"b">>)) }

OptionsLongKey == (<<"a", "b">> :> <<"x">>)

\* the bodies of create_question that pass or break each validation
AllQuestionCreates ==
    QuestionCreates
      \cup { QuestionCreate(1, <<"q">>, OptionsBlank, <<"a">>),
              QuestionCreate(1, <<"q">>, [key \in {} |-> <<>>], <<"a">>),
              QuestionCreate(1, <<"q">>, OptionsAB, <<" ">>),
              QuestionCreate(1, <<"q">>, OptionsLongKey, <<"a", "b">>) }

\* the bodies of update_question that pass or break each validation, after a
\* field that is valid or as the only field
AllQuestionUpdates ==
    QuestionUpdates
      \cup { QuestionUpdate(None, Some(<<"r">>), Some(OptionsBlank), None),
              QuestionUpdate(None, Some(<<"r">>), Some([key \in {} |-> <<>>]), None),
              QuestionUpdate(None, Some(<<"r">>), Some(OptionsAB), Some(<<" ">>)),
              QuestionUpdate(None, None, Some(OptionsLongKey), Some(<<"a", "b">>)),
              QuestionUpdate(Some(2), Some(<<"r">>), Some(OptionsAB), Some(<<"b">>)) }

\* no option is taken for blank
BlankOption_Never(options) == FALSE

\* `not value or not value.strip()` for some option
BlankOption(options) == \E key \in DOMAIN options : IsBlank(options[key])

\* the validations of create_question in their order: the first that fails
CreateError(question) ==
    IF IsBlank(question.question_text) THEN [status |-> 400, error |-> "question_text"]
    ELSE IF DOMAIN question.options = {} THEN [status |-> 400, error |-> "options"]
    ELSE IF BlankOption(question.options) THEN [status |-> 400, error |-> "option"]
    ELSE IF IsBlank(question.correct_option)
         THEN [status |-> 400, error |-> "correct_option"]
    ELSE IF question.category_id \notin Categories
         THEN [status |-> 404, error |-> "category"]
    ELSE IF question.correct_option \notin DOMAIN question.options
         THEN [status |-> 400, error |-> "correct_option not in options"]
    ELSE IF Len(question.correct_option) # 1
         THEN [status |-> 400, error |-> "correct_option length"]
    ELSE [status |-> 200, error |-> ""]

create_question(p, question) ==
    /\ Free(p)
    /\ request' = [request EXCEPT ![p] = question]
    /\ local' = [local EXCEPT ![p] = Locals("create_question")]
    /\ UNCHANGED <<accounts, tests, candidates, responses>>
    /\ LET v == CreateError(question)
       IN IF v.status # 200
          THEN /\ Return(p, Returned(v.status, v.error, 0, Nil))
               /\ UNCHANGED <<questions, next_id>>
          ELSE /\ questions' = Insert(questions, next_id.questions, question)
               /\ next_id' = [next_id EXCEPT !.questions = next_id.questions + 1]
               /\ Return(p, Returned(200, "", next_id.questions, Nil))

\* update_question after the row was found: the fields are taken over one
\* after the other, and the first validation that fails returns before the
\* commit, so that nothing is stored
Updated(db_question, question) ==
    LET text_given == question.question_text # None
        options_given == question.options # None
        correct_given == question.correct_option # None
        category_given == question.category_id # None
        with_text ==
            IF text_given
            THEN [db_question EXCEPT !.question_text = question.question_text[1]]
            ELSE db_question
        with_options ==
            IF options_given
            THEN [with_text EXCEPT !.options = question.options[1]]
            ELSE with_text
        with_correct ==
            IF correct_given
            THEN [with_options EXCEPT !.correct_option = question.correct_option[1]]
            ELSE with_options
        with_category ==
            IF category_given
            THEN [with_correct EXCEPT !.category_id = question.category_id[1]]
            ELSE with_correct
        failed(status, error) == [status |-> status, error |-> error, row |-> db_question]
    IN IF text_given /\ IsBlank(question.question_text[1])
       THEN failed(400, "question_text")
       ELSE IF options_given /\ DOMAIN question.options[1] = {}
       THEN failed(400, "options")
       ELSE IF options_given /\ BlankOption(question.options[1])
       THEN failed(400, "option")
       ELSE IF /\ options_given
               /\ ~correct_given
               /\ db_question.correct_option \notin DOMAIN question.options[1]
       THEN failed(400, "current correct_option")
       ELSE IF correct_given /\ IsBlank(question.correct_option[1])
       THEN failed(400, "correct_option")
       ELSE IF correct_given /\ Len(question.correct_option[1]) # 1
       THEN failed(400, "correct_option length")
       ELSE IF /\ correct_given
               /\ question.correct_option[1] \notin DOMAIN with_options.options
       THEN failed(400, "correct_option not in options")
       ELSE IF category_given /\ question.category_id[1] \notin Categories
       THEN failed(404, "category")
       ELSE [status |-> 200, error |-> "", row |-> with_category]

update_question(p, question_id, question) ==
    /\ Free(p)
    /\ request' = [request EXCEPT ![p] = [question_id |-> question_id, body |-> question]]
    /\ local' = [local EXCEPT ![p] = Locals("update_question")]
    /\ UNCHANGED <<accounts, tests, candidates, responses, next_id>>
    /\ IF question_id \notin Rows(questions)
       THEN /\ Return(p, Returned(404, "question", 0, Nil))
            /\ UNCHANGED questions
       ELSE LET u == Updated(questions[question_id], question)
            IN /\ questions' = [questions EXCEPT ![question_id] = u.row]
               /\ Return(p, Returned(u.status, u.error,
                                     IF u.status = 200 THEN question_id ELSE 0, Nil))

delete_question(p, question_id) ==
    /\ Free(p)
    /\ request' = [request EXCEPT ![p] = question_id]
    /\ local' = [local EXCEPT ![p] = Locals("delete_question")]
    /\ UNCHANGED <<accounts, tests, candidates, responses, next_id>>
    /\ IF question_id \notin Rows(questions)
       THEN /\ Return(p, Returned(404, "question", 0, Nil))
            /\ UNCHANGED questions
       ELSE /\ questions' = Delete(questions, {question_id})
            /\ Return(p, Returned(200, "", question_id, Nil))

\* the question specification a creator sends for a question selected from
\* the bank
FromBank(question_id) ==
    Q(question_id, questions[question_id].correct_option,
      DOMAIN questions[question_id].options, questions[question_id].question_text)

\* the bodies of the create_test requests that select a question of the bank,
\* and the empty selection
BankQuestionLists ==
    {<<>>}
      \cup { <<FromBank(q)>> : q \in Rows(questions) }

-----------------------------------------------------------------------------
(* create_category, update_category *)

\* current_user.role.role_name of the user with id user_id
role_name(user_id) == Roles[users[user_id].role_id]

\* the caller of a handler that depends on get_current_user: the id of a
\* user, or 0 for a request without a valid token
CurrentUsers == {0} \cup Rows(users)

\* schemas.CategoryCreate
CategoryCreate(name, description) == [name |-> name, description |-> description]

CategoryCreates ==
    { CategoryCreate(<<"A">>, None),
      CategoryCreate(<<"a">>, None),
      CategoryCreate(<<" ", "A">>, None),
      CategoryCreate(<<"D">>, Some(<<"d">>)),
      CategoryCreate(<<"D", " ">>, None) }

\* schemas.CategoryUpdate: every field is Optional
CategoryUpdate(name, description) == [name |-> name, description |-> description]

CategoryUpdates ==
    { CategoryUpdate(Some(<<"A">>), None),
      CategoryUpdate(Some(<<"a">>), Some(<<"d">>)),
      CategoryUpdate(Some(<<"d">>), None),
      CategoryUpdate(None, Some(<<"d">>)) }

\* func.lower(models.Category.name) == func.lower(category_name)
CategoryByLowerName(category_name) ==
    { c \in Rows(categories) : lower(categories[c].name) = lower(category_name) }

\* models.Category.name == name, for the rows other than category_id
CategoryByName(name, category_id) ==
    { c \in Rows(categories) \ {category_id} : categories[c].name = name }

\* the row is stored with category.name as sent; the INSERT of a name that
\* a row has raises IntegrityError (unique=True), an unhandled 500
create_category(p, caller, category) ==
    /\ Free(p)
    /\ request' = [request EXCEPT ![p] = [caller |-> caller, body |-> category]]
    /\ local' = [local EXCEPT ![p] = Locals("create_category")]
    /\ UNCHANGED <<questions, tests, candidates, responses, users>>
    /\ IF caller = 0
       THEN /\ Return(p, Returned(401, "credentials", 0, Nil))
            /\ UNCHANGED <<categories, next_id>>
       ELSE IF CategoryByLowerName(strip(category.name)) # {}
       THEN /\ Return(p, Returned(400, "name", 0, Nil))
            /\ UNCHANGED <<categories, next_id>>
       ELSE IF CategoryByName(category.name, 0) # {}
       THEN /\ Return(p, Returned(500, "IntegrityError", 0, Nil))
            /\ UNCHANGED <<categories, next_id>>
       ELSE /\ categories' = Insert(categories, next_id.categories,
                                    [name |-> category.name,
                                     description |-> category.description,
                                     user_id |-> caller])
            /\ next_id' = [next_id EXCEPT !.categories = next_id.categories + 1]
            /\ Return(p, Returned(200, "", next_id.categories, Nil))

update_category(p, caller, category_id, category) ==
    /\ Free(p)
    /\ request' = [request EXCEPT ![p] = [caller |-> caller,
                                          category_id |-> category_id,
                                          body |-> category]]
    /\ local' = [local EXCEPT ![p] = Locals("update_category")]
    /\ UNCHANGED <<questions, tests, candidates, responses, users, next_id>>
    /\ IF caller = 0
       THEN /\ Return(p, Returned(401, "credentials", 0, Nil))
            /\ UNCHANGED categories
       ELSE IF category_id \notin Rows(categories)
       THEN /\ Return(p, Returned(404, "category", 0, Nil))
            /\ UNCHANGED categories
       ELSE IF /\ role_name(caller) # "Admin"
               /\ categories[category_id].user_id # caller
       THEN /\ Return(p, Returned(403, "role", 0, Nil))
            /\ UNCHANGED categories
       ELSE IF /\ category.name # None
               /\ CategoryByName(category.name[1], category_id) # {}
       THEN /\ Return(p, Returned(400, "name", 0, Nil))
            /\ UNCHANGED categories
       ELSE LET db_category == categories[category_id]
                named == IF category.name # None
                         THEN [db_category EXCEPT !.name = category.name[1]]
                         ELSE db_category
                described == IF category.description # None
                             THEN [named EXCEPT !.description = category.description]
                             ELSE named
            IN /\ categories' = [categories EXCEPT ![category_id] = described]
               /\ Return(p, Returned(200, "", category_id, Nil))

-----------------------------------------------------------------------------
(* update_user *)

\* schemas.UserUpdate: every field is Optional
UserUpdate(name, email, password, role_id) ==
    [name |-> name, email |-> email, password |-> password, role_id |-> role_id]

UserUpdates ==
    { UserUpdate(Some(<<"N">>), None, None, None),
      UserUpdate(None, Some("new@x.io"), None, None),
      UserUpdate(Some(<<"N">>), Some("admin@gmail.com"), None, None),
      UserUpdate(Some(<<"N">>), Some("creator@gmail.com"), Some(<<"p">>), None),
      UserUpdate(Some(<<"N">>), None, Some(<<"p">>), Some(1)),
      UserUpdate(None, None, None, Some(2)),
      UserUpdate(None, None, None, Some(3)) }

\* the role check of update_user passed by every caller
MayChangeRole_Anyone(caller) == TRUE

\* current_user.role.role_name == "Admin" where role_id is to be changed
MayChangeRole(caller) == role_name(caller) = "Admin"

\* update_user after the row was found: the fields are taken over one after
\* the other, and a check that fails returns before the commit, so that
\* nothing is stored; a role_id that table roles does not have fails the
\* commit (ForeignKey roles.id)
UserUpdated(caller, user_id, user) ==
    LET db_user == users[user_id]
        with_name ==
            IF user.name # None THEN [db_user EXCEPT !.name = user.name[1]]
            ELSE db_user
        with_email ==
            IF user.email # None THEN [with_name EXCEPT !.email = user.email[1]]
            ELSE with_name
        with_password ==
            IF user.password # None
            THEN [with_email EXCEPT !.password = hash_password(user.password[1])]
            ELSE with_email
        with_role ==
            IF user.role_id # None
            THEN [with_password EXCEPT !.role_id = user.role_id[1]]
            ELSE with_password
        failed(status, error) == [status |-> status, error |-> error, row |-> db_user]
    IN IF /\ user.email # None
          /\ \E u \in Rows(users) \ {user_id} : users[u].email = user.email[1]
       THEN failed(400, "email")
       ELSE IF user.role_id # None /\ ~MayChangeRole(caller)
       THEN failed(403, "role_id")
       ELSE IF with_role.role_id \notin DOMAIN Roles
       THEN failed(500, "IntegrityError")
       ELSE [status |-> 200, error |-> "", row |-> with_role]

update_user(p, caller, user_id, user) ==
    /\ Free(p)
    /\ request' = [request EXCEPT ![p] = [caller |-> caller, user_id |-> user_id,
                                          body |-> user]]
    /\ local' = [local EXCEPT ![p] = Locals("update_user")]
    /\ UNCHANGED <<questions, tests, candidates, responses, categories, next_id>>
    /\ IF caller = 0
       THEN /\ Return(p, Returned(401, "credentials", 0, Nil))
            /\ UNCHANGED users
       ELSE IF role_name(caller) # "Admin" /\ caller # user_id
       THEN /\ Return(p, Returned(403, "profile", 0, Nil))
            /\ UNCHANGED users
       ELSE IF user_id \notin Rows(users)
       THEN /\ Return(p, Returned(404, "user", 0, Nil))
            /\ UNCHANGED users
       ELSE LET u == UserUpdated(caller, user_id, user)
            IN /\ users' = [users EXCEPT ![user_id] = u.row]
               /\ Return(p, Returned(u.status, u.error,
                                     IF u.status = 200 THEN user_id ELSE 0, Nil))

-----------------------------------------------------------------------------
(* Specifications *)

\* the model follows a request only while the tables stay within max rows
\* ever stored
CanStoreTest(max) == next_id.tests <= max

CanStoreResponse(sub, max) ==
    Validate(sub).status = 200 => next_id.responses <= max

CanRetry(p) == Len(local'[p].codes) - 1 <= RetryBound

\* one request at a time: create_test and submit_test
Next ==
    \/ \E test_data \in QuestionLists :
          Free(1) /\ CanStoreTest(MaxTests) /\ ct_begin(1, test_data)
    \/ ct_check(1) /\ CanRetry(1)
    \/ ct_store(1)
    \/ \E sub \in Submissions :
          Free(1) /\ CanStoreResponse(sub, MaxResponses) /\ st_begin(1, sub)
    \/ st_insert(1)
    \/ st_respond(1)
    \/ finish(1)

Spec == Init /\ [][Next]_vars

\* one request at a time: create_test alone
NextCreate ==
    \/ \E test_data \in QuestionLists :
          Free(1) /\ CanStoreTest(MaxCreated) /\ ct_begin(1, test_data)
    \/ ct_check(1) /\ CanRetry(1)
    \/ ct_store(1)
    \/ finish(1)

SpecCreate == Init /\ [][NextCreate]_vars

\* one request at a time: submissions that share or do not share an email,
\* against one test or another
NextDedup ==
    \/ \E test_data \in OneQuestionLists :
          Free(1) /\ CanStoreTest(DedupTests) /\ ct_begin(1, test_data)
    \/ ct_check(1) /\ CanRetry(1)
    \/ ct_store(1)
    \/ \E sub \in DedupSubmissions :
          Free(1) /\ CanStoreResponse(sub, DedupResponses) /\ st_begin(1, sub)
    \/ st_insert(1)
    \/ st_respond(1)
    \/ finish(1)

SpecDedup == Init /\ [][NextDedup]_vars

CanStoreQuestion(max) == next_id.questions <= max

\* one request at a time: the question bank, tests built from it, submissions
\* and the deletions
NextBank ==
    \/ \E question \in QuestionCreates :
          Free(1) /\ CanStoreQuestion(BankQuestions) /\ create_question(1, question)
    \/ \E question_id \in 1 .. next_id.questions - 1, question \in QuestionUpdates :
          update_question(1, question_id, question)
    \/ \E question_id \in 1 .. next_id.questions - 1 :
          delete_question(1, question_id)
    \/ \E test_data \in BankQuestionLists :
          Free(1) /\ CanStoreTest(BankTests) /\ ct_begin(1, test_data)
    \/ ct_check(1) /\ CanRetry(1)
    \/ ct_store(1)
    \/ \E sub \in BankSubmissions :
          Free(1) /\ CanStoreResponse(sub, BankResponses) /\ st_begin(1, sub)
    \/ st_insert(1)
    \/ st_respond(1)
    \/ \E candidate_id \in 1 .. next_id.candidates - 1 :
          delete_candidate(1, candidate_id)
    \/ \E response_id \in 1 .. next_id.responses - 1 :
          delete_response(1, response_id)
    \/ finish(1)

SpecBank == Init /\ [][NextBank]_vars

\* the bank alone, one request at a time
NextQuestions ==
    \/ \E question \in AllQuestionCreates :
          Free(1) /\ CanStoreQuestion(MaxQuestions) /\ create_question(1, question)
    \/ \E question_id \in 1 .. next_id.questions, question \in AllQuestionUpdates :
          update_question(1, question_id, question)
    \/ \E question_id \in 1 .. next_id.questions :
          delete_question(1, question_id)
    \/ finish(1)

SpecQuestions == Init /\ [][NextQuestions]_vars

\* two requests at a time: the steps of two submit_test requests interleave
NextRace ==
    \/ \E test_data \in OneQuestionLists :
          Free(1) /\ CanStoreTest(RaceTests) /\ ct_begin(1, test_data)
    \/ ct_check(1) /\ CanRetry(1)
    \/ ct_store(1)
    \/ \E p \in Procs, sub \in RaceSubmissions :
          Free(p) /\ CanStoreResponse(sub, RaceResponses) /\ st_begin(p, sub)
    \/ \E p \in Procs : st_insert(p)
    \/ \E p \in Procs : st_respond(p)
    \/ \E p \in Procs : finish(p)

SpecRace == Init /\ [][NextRace]_vars

\* two requests at a time: the steps of two create_test requests interleave
NextRaceCreate ==
    \/ \E p \in Procs, test_data \in OneQuestionLists :
          Free(p) /\ CanStoreTest(RaceCreated) /\ ct_begin(p, test_data)
    \/ \E p \in Procs : ct_check(p) /\ CanRetry(p)
    \/ \E p \in Procs : ct_store(p)
    \/ \E p \in Procs : finish(p)

SpecRaceCreate == Init /\ [][NextRaceCreate]_vars

\* create_test, one request at a time, and a reader that holds no more than
\* the answers it got: get_test_by_code
NextSnapshot ==
    \/ \E test_data \in SnapshotLists :
          Free(1) /\ CanStoreTest(SnapshotTests) /\ ct_begin(1, test_data)
    \/ ct_check(1) /\ CanRetry(1)
    \/ ct_store(1)
    \/ \E code \in generate_test_code : get_test_by_code(2, code)
    \/ \E p \in Procs : finish(p)

SpecSnapshot == Init /\ [][NextSnapshot]_vars

\* one request at a time: submissions of two candidates and the deletions
NextDelete ==
    \/ \E test_data \in OneQuestionLists :
          Free(1) /\ CanStoreTest(DeleteTests) /\ ct_begin(1, test_data)
    \/ ct_check(1) /\ CanRetry(1)
    \/ ct_store(1)
    \/ \E sub \in DeleteSubmissions :
          Free(1) /\ CanStoreResponse(sub, DeleteResponses) /\ st_begin(1, sub)
    \/ st_insert(1)
    \/ st_respond(1)
    \/ \E candidate_id \in 1 .. next_id.candidates :
          delete_candidate(1, candidate_id)
    \/ \E response_id \in 1 .. next_id.responses :
          delete_response(1, response_id)
    \/ finish(1)

SpecDelete == Init /\ [][NextDelete]_vars

\* results read after tests were created and answered and responses deleted,
\* one request at a time
NextResults ==
    \/ \E test_data \in ResultLists :
          Free(1) /\ CanStoreTest(ResultsTests) /\ ct_begin(1, test_data)
    \/ ct_check(1) /\ Len(local'[1].codes) - 1 <= ResultsRetries
    \/ ct_store(1)
    \/ \E sub \in ResultSubmissions :
          Free(1) /\ CanStoreResponse(sub, ResultsResponses) /\ st_begin(1, sub)
    \/ st_insert(1)
    \/ st_respond(1)
    \/ \E response_id \in 1 .. next_id.responses :
          delete_response(1, response_id)
    \/ \E candidate_id \in 1 .. next_id.candidates :
          get_candidate_result(1, candidate_id)
    \/ \E code \in TestCodeQueries : get_all_results(1, code)
    \/ finish(1)

SpecResults == Init /\ [][NextResults]_vars

\* the routes of candidates.py called by callers of every role, one request
\* at a time
NextAuth ==
    \/ \E test_data \in OneQuestionLists :
          Free(1) /\ CanStoreTest(AuthTests) /\ ct_begin(1, test_data)
    \/ ct_check(1) /\ Len(local'[1].codes) - 1 <= ResultsRetries
    \/ ct_store(1)
    \/ \E sub \in DeleteSubmissions :
          Free(1) /\ CanStoreResponse(sub, AuthResponses) /\ st_begin(1, sub)
    \/ st_insert(1)
    \/ st_respond(1)
    \/ \E caller \in Callers, candidate_id \in 1 .. next_id.candidates :
          delete_candidate_route(1, caller, candidate_id)
    \/ \E caller \in Callers, response_id \in 1 .. next_id.responses :
          delete_response_route(1, caller, response_id)
    \/ \E caller \in Callers, candidate_id \in 1 .. next_id.candidates :
          get_candidate_result_route(1, caller, candidate_id)
    \/ \E caller \in Callers, code \in TestCodeQueries :
          get_all_results_route(1, caller, code)
    \/ finish(1)

SpecAuth == Init /\ [][NextAuth]_vars

\* submissions of every time taken and the listing that formats them, one
\* request at a time
NextTime ==
    \/ \E test_data \in OneQuestionLists :
          Free(1) /\ CanStoreTest(TimeTests) /\ ct_begin(1, test_data)
    \/ ct_check(1) /\ Len(local'[1].codes) - 1 <= ResultsRetries
    \/ ct_store(1)
    \/ \E sub \in TimeSubmissions :
          Free(1) /\ CanStoreResponse(sub, TimeResponses) /\ st_begin(1, sub)
    \/ st_insert(1)
    \/ st_respond(1)
    \/ \E code \in TestCodeQueries : get_all_results(1, code)
    \/ finish(1)

SpecTime == Init /\ [][NextTime]_vars

\* the categories created and renamed, one request at a time
NextCategories ==
    \/ \E caller \in CurrentUsers, category \in CategoryCreates :
          /\ next_id.categories <= MaxCategories
          /\ create_category(1, caller, category)
    \/ \E caller \in CurrentUsers, category_id \in 1 .. next_id.categories,
          category \in CategoryUpdates :
          update_category(1, caller, category_id, category)
    \/ finish(1)

SpecCategories == Init /\ [][NextCategories]_vars

\* the users updated, one request at a time
NextUsers ==
    \/ \E caller \in CurrentUsers, user_id \in 0 .. Cardinality(Rows(users)),
          user \in UserUpdates :
          update_user(1, caller, user_id, user)
    \/ finish(1)

SpecUsers == Init /\ [][NextUsers]_vars

-----------------------------------------------------------------------------
(* Properties of submit_test, one request at a time *)

\* request slot p holds the answer of handler op
Answered(p, op) == pc[p] = "done" /\ local[p].op = op

\* submit_test returned success
Accepted(p) == Answered(p, "submit_test") /\ result[p].status = 200

\* the answer names a frozen question of the snapshot and selects its answer,
\* compared after trimming and uppercasing
GradedCorrect(answer, snapshot) ==
    \E j \in DOMAIN snapshot :
        /\ str(snapshot[j].question_id) = answer.questionId
        /\ upper(strip(answer.selected)) = upper(snapshot[j].answer)

\* the answer names a frozen question of the snapshot
NamesFrozenQuestion(answer, snapshot) ==
    \E j \in DOMAIN snapshot : str(snapshot[j].question_id) = answer.questionId

SnapshotOf(response_id) == tests[responses[response_id].test_id].questions_data

\* C1: the stored score of an accepted submission is the number of its
\* submitted answers whose selected option, trimmed and uppercased, equals the
\* uppercased frozen answer of the question with that questionId (the question
\* ids of a snapshot are distinct)
C1_ScoreCountsCorrectAnswers ==
    \A p \in Procs :
        Accepted(p) =>
            LET submitted == request[p].answers
                snapshot == SnapshotOf(result[p].id)
            IN responses[result[p].id].score =
                   Cardinality({i \in DOMAIN submitted :
                                   GradedCorrect(submitted[i], snapshot)})

\* an accepted submission with N of N correct that selects "a" for a question
\* whose frozen answer is "A", next to a stored response with 0 of N
C1_Witness ==
    \E p \in Procs :
        /\ Accepted(p)
        /\ Len(SnapshotOf(result[p].id)) = 2
        /\ responses[result[p].id].score = 2
        /\ \E i \in DOMAIN request[p].answers, j \in DOMAIN SnapshotOf(result[p].id) :
              /\ request[p].answers[i].selected = <<"a">>
              /\ str(SnapshotOf(result[p].id)[j].question_id)
                     = request[p].answers[i].questionId
              /\ SnapshotOf(result[p].id)[j].answer = <<"A">>
        /\ \E r \in Rows(responses) :
              responses[r].score = 0 /\ Len(SnapshotOf(r)) = 2

\* C2: a submission for an existing test whose number of answers differs from
\* the number of frozen questions returns 400 and changes neither the
\* candidates nor the responses
C2_CountMismatchRejected ==
    [][\A p \in Procs :
          LET sub == request'[p]
              test == TestByCode(sub.testId)
          IN (/\ pc[p] = "idle"
              /\ pc'[p] # "idle"
              /\ local'[p].op = "submit_test"
              /\ test # 0
              /\ Len(sub.answers) # Len(tests[test].questions_data))
             => /\ pc'[p] = "done"
                /\ result'[p].status = 400
                /\ candidates' = candidates
                /\ responses' = responses]_vars

\* one answer for a test of two questions, under an email no candidate has
C2_Witness ==
    \E p \in Procs :
        /\ Answered(p, "submit_test")
        /\ result[p].status = 400
        /\ result[p].error = "count"
        /\ TestByCode(request[p].testId) # 0
        /\ Len(request[p].answers) = 1
        /\ Len(tests[TestByCode(request[p].testId)].questions_data) = 2
        /\ CandidateByEmail(request[p].email) = 0
        /\ responses = Empty

\* C5: submit_test either stores one response and returns success, or returns
\* an error and leaves no row it wrote: no candidate row inserted by a request
\* that failed
C5_AllOrNothing ==
    \A p \in Procs :
        Answered(p, "submit_test") =>
            \/ result[p].status = 200 /\ result[p].id \in Rows(responses)
            \/ /\ result[p].status # 200
               /\ ~(local[p].created /\ local[p].candidate \in Rows(candidates))

\* C6: the stored answers of a response are as many as the frozen questions
\* of its test
C6_StoredAnswersCoverTest ==
    \A p \in Procs :
        Accepted(p) =>
            Len(responses[result[p].id].answers) = Len(SnapshotOf(result[p].id))

-----------------------------------------------------------------------------
(* Properties of create_test, one request at a time *)

\* create_test returned success
Created(p) == Answered(p, "create_test") /\ result[p].status = 200

\* C8: no two stored tests have the same test_code; the code a test is stored
\* with is the one generated last, every code generated before it was the code
\* of a test stored earlier, and the handler reaches the INSERT only with a
\* code that no stored test has: one collision, one regeneration
C8_TestCodesUnique ==
    /\ \A t1, t2 \in Rows(tests) :
          tests[t1].test_code = tests[t2].test_code => t1 = t2
    /\ \A p \in Procs :
          /\ pc[p] = "ct_store" => ~CodeTaken(test_code(p))
          /\ Created(p) =>
                LET codes == local[p].codes IN
                /\ tests[result[p].id].test_code = codes[Len(codes)]
                /\ \A i \in 1 .. Len(codes) - 1 :
                      \E t \in Rows(tests) \ {result[p].id} :
                          tests[t].test_code = codes[i]

\* a second test stored after its first code collided with the code of the
\* first test: two codes generated, one regeneration
C8_Witness ==
    \E p \in Procs :
        /\ Created(p)
        /\ Cardinality(Rows(tests)) = 2
        /\ Len(local[p].codes) = 2
        /\ \E t \in Rows(tests) \ {result[p].id} :
              tests[t].test_code = local[p].codes[1]

\* C9: create_test regenerates the code at most 5 times
C9_RetriesCapped ==
    \A p \in Procs :
        local[p].op = "create_test" /\ local[p].codes # <<>> => retries(p) <= 5

-----------------------------------------------------------------------------
(* Properties of the snapshot under changes of the bank *)

\* the stored grading of a response agrees with the frozen snapshot of its
\* test: every entry names a frozen question, holds its uppercased answer as
\* correct, and is correct when the selection equals it; score counts these
GradedAgainstFrozen(response_id) ==
    LET snapshot == SnapshotOf(response_id)
        answers == responses[response_id].answers
    IN /\ \A i \in DOMAIN answers :
             /\ \E j \in DOMAIN snapshot :
                   /\ str(snapshot[j].question_id) = answers[i].questionId
                   /\ answers[i].correct = upper(snapshot[j].answer)
             /\ answers[i].isCorrect = (answers[i].selected = answers[i].correct)
       /\ responses[response_id].score =
             Cardinality({i \in DOMAIN answers : answers[i].isCorrect})

\* C3: no step of create_question, update_question, delete_question,
\* create_test, submit_test, delete_candidate or delete_response removes a test
\* or changes its questions_data, and after every step each stored response is
\* graded as the frozen snapshot of its test says, whatever the bank holds by
\* then
C3_SnapshotImmutable ==
    [][ /\ \A t \in Rows(tests) :
              /\ t \in Rows(tests')
              /\ tests'[t].questions_data = tests[t].questions_data
        /\ \A r \in Rows(responses') : GradedAgainstFrozen(r)' ]_vars

\* a submission accepted with a correct answer to a frozen question whose live
\* row has another correct_option by now
C3_Witness ==
    \E p \in Procs :
        /\ Accepted(p)
        /\ responses[result[p].id].score >= 1
        /\ LET q == tests[local[p].test].questions_data[1]
           IN /\ q.question_id \in Rows(questions)
              /\ questions[q.question_id].correct_option # q.answer
              /\ responses[result[p].id].answers[1].correct = upper(q.answer)

-----------------------------------------------------------------------------
(* Properties of the candidate of a submission *)

WithEmail(table, email) == {c \in Rows(table) : table[c].email = email}

ResponsesOf(table, candidate_ids) ==
    {r \in Rows(table) : table[r].candidate_id \in candidate_ids}

\* C4: one request at a time, no email is ever held by two candidate rows, and
\* the step that accepts a submission leaves exactly one candidate row with the
\* submission's email and adds exactly one response row, which is of that
\* candidate: N accepted submissions under an email, N responses of the one
\* candidate
C4_OneCandidatePerEmail ==
    [][ /\ \A email \in Emails : Cardinality(WithEmail(candidates', email)) <= 1
        /\ \A p \in Procs :
              pc[p] = "st_respond" /\ Accepted(p)' =>
                 LET same == WithEmail(candidates', request[p].email)
                 IN /\ Cardinality(same) = 1
                    /\ WithEmail(candidates, request[p].email) = same
                    /\ Rows(responses') = Rows(responses) \cup {result'[p].id}
                    /\ result'[p].id \notin Rows(responses)
                    /\ responses'[result'[p].id].candidate_id \in same
                    /\ \A r \in Rows(responses) : responses'[r] = responses[r] ]_vars

\* the second accepted submission under an email, against another test than
\* the first: one candidate, two responses
C4_Witness ==
    \E p \in Procs :
        /\ Accepted(p)
        /\ ~local[p].created
        /\ Cardinality(WithEmail(candidates, request[p].email)) = 1
        /\ \E r \in Rows(responses) :
              /\ r # result[p].id
              /\ responses[r].candidate_id = local[p].candidate
              /\ responses[result[p].id].candidate_id = local[p].candidate
              /\ responses[r].test_id # responses[result[p].id].test_id
        /\ Cardinality(ResponsesOf(responses, {local[p].candidate})) = 2

-----------------------------------------------------------------------------
(* Properties of two submit_test requests at a time *)

\* C10: no email is held by two candidate rows, and a submission that passed
\* the validations is answered with success, its response stored under the
\* candidate with its email
C10_RaceLoserCompletes ==
    /\ \A email \in Emails : Cardinality(WithEmail(candidates, email)) <= 1
    /\ \A p \in Procs :
          Answered(p, "submit_test") /\ local[p].test # 0 =>
             /\ result[p].status = 200
             /\ responses[result[p].id].candidate_id \in
                   WithEmail(candidates, request[p].email)

-----------------------------------------------------------------------------
(* Properties of two create_test requests at a time *)

\* C11: no test_code is held by two test rows, and a create_test request
\* whose questions are valid is answered with success, its test stored
C11_RaceLoserRetries ==
    /\ \A t1, t2 \in Rows(tests) :
          tests[t1].test_code = tests[t2].test_code => t1 = t2
    /\ \A p \in Procs :
          Answered(p, "create_test") /\ ValidQuestions(request[p]) =>
             /\ result[p].status = 200
             /\ result[p].id \in Rows(tests)

-----------------------------------------------------------------------------
(* Properties of the rejections of submit_test *)

\* the step by which request slot p takes a submission, request'[p]
Submits(p) ==
    /\ pc[p] = "idle"
    /\ pc'[p] # "idle"
    /\ local'[p].op = "submit_test"

\* the submission is for a stored test, has as many answers as the test has
\* frozen questions, and answer idx is its first without a selected option
FirstUnanswered(sub, idx) ==
    /\ TestByCode(sub.testId) # 0
    /\ Len(sub.answers) = Len(tests[TestByCode(sub.testId)].questions_data)
    /\ idx \in DOMAIN sub.answers
    /\ IsBlank(sub.answers[idx].selected)
    /\ \A j \in 1 .. idx - 1 : ~IsBlank(sub.answers[j].selected)

\* the request is rejected with 400, the error names position idx, and no
\* candidate or response row is created
RejectedAt(p, idx) ==
    /\ pc'[p] = "done"
    /\ result'[p].status = 400
    /\ result'[p].error = "selected"
    /\ result'[p].payload = [question |-> idx]
    /\ candidates' = candidates
    /\ responses' = responses

\* C12 as stated: a submission for a stored test with a matching answer count
\* and an answer without a selected option is rejected with 400, the error
\* naming the position of the first such answer, and creates no row
C12_BlankAnswerNamed ==
    [][\A p \in Procs :
          Submits(p) =>
             \A idx \in DOMAIN request'[p].answers :
                FirstUnanswered(request'[p], idx) => RejectedAt(p, idx)]_vars

\* C12 amended: the same, for a submission whose name is not blank
C12_BlankAnswerNamedAfterName ==
    [][\A p \in Procs :
          Submits(p) /\ ~IsBlank(request'[p].name) =>
             \A idx \in DOMAIN request'[p].answers :
                FirstUnanswered(request'[p], idx) => RejectedAt(p, idx)]_vars

\* a named submission rejected for its second answer, the first one answered
C12_Witness ==
    \E p \in Procs :
        /\ Answered(p, "submit_test")
        /\ ~IsBlank(request[p].name)
        /\ FirstUnanswered(request[p], 2)
        /\ result[p].status = 400
        /\ result[p].payload = [question |-> 2]
        /\ candidates = Empty
        /\ responses = Empty

-----------------------------------------------------------------------------
(* Properties of the snapshot that create_test stores *)

\* the step by which request slot p takes a create_test request, request'[p]
Creates(p) ==
    /\ pc[p] = "idle"
    /\ pc'[p] # "idle"
    /\ local'[p].op = "create_test"

\* the request is rejected with 400 and the tests are unchanged
RejectedUnstored(p) ==
    /\ pc'[p] = "done"
    /\ result'[p].status = 400
    /\ tests' = tests

\* the error identifies position i: the first question of qs that breaks a
\* rule, or 0 for the empty list
Identifies(payload, qs) ==
    IF qs = <<>> THEN payload.index = 0
    ELSE /\ payload.index \in DOMAIN qs
         /\ ~ValidQuestion(qs[payload.index])
         /\ \A j \in 1 .. payload.index - 1 : ValidQuestion(qs[j])
         /\ payload.rule # ""

AnswerIsKey(q) ==
    /\ q.options # {}
    /\ \E k \in q.options : upper(k) = upper(q.answer)

Reads(p) ==
    /\ pc[p] = "idle"
    /\ pc'[p] # "idle"
    /\ local'[p].op = "get_test_by_code"

-----------------------------------------------------------------------------
(* Properties of delete_candidate and delete_response *)

\* the step by which request slot p serves handler op, atomically
Serves(p, op) ==
    /\ pc[p] = "idle"
    /\ pc'[p] = "done"
    /\ local'[p].op = op

\* table after is table before without the rows ids, the others as they were
Without(before, after, ids) ==
    /\ Rows(after) = Rows(before) \ ids
    /\ \A i \in Rows(after) : after[i] = before[i]

\* C16: one request at a time, after every step of submit_test,
\* delete_candidate and delete_response each response references a stored
\* candidate, and delete_candidate of a stored candidate removes that
\* candidate and exactly the responses that reference it
C16_ResponsesHaveCandidate ==
    [][ /\ \A r \in Rows(responses') :
              responses'[r].candidate_id \in Rows(candidates')
        /\ \A p \in Procs :
              Serves(p, "delete_candidate") /\ request'[p] \in Rows(candidates) =>
                 /\ result'[p].status = 200
                 /\ Without(candidates, candidates', {request'[p]})
                 /\ Without(responses, responses',
                       {r \in Rows(responses) :
                           responses[r].candidate_id = request'[p]}) ]_vars

\* a candidate deleted with two responses, the response of another candidate
\* left
C16_Witness ==
    \E p \in Procs :
        /\ Answered(p, "delete_candidate")
        /\ result[p].status = 200
        /\ next_id.responses = 4
        /\ Cardinality(Rows(responses)) = 1
        /\ Cardinality(Rows(candidates)) = 1
        /\ \A r \in Rows(responses) : responses[r].candidate_id # request[p]

\* C17: delete_response of a stored response removes that row alone and
\* leaves the tests, the candidates and the other responses as they were;
\* with an id that no response has it returns 404 and changes no table
C17_DeleteResponseAlone ==
    [][\A p \in Procs :
          Serves(p, "delete_response") =>
             /\ tests' = tests
             /\ candidates' = candidates
             /\ questions' = questions
             /\ IF request'[p] \in Rows(responses)
                THEN /\ result'[p].status = 200
                     /\ Without(responses, responses', {request'[p]})
                ELSE /\ result'[p].status = 404
                     /\ responses' = responses ]_vars

\* the last response of a candidate deleted, the candidate and the response
\* of another candidate kept
C17_Witness ==
    \E p \in Procs :
        /\ Answered(p, "delete_response")
        /\ result[p].status = 200
        /\ Cardinality(Rows(candidates)) = 2
        /\ Cardinality(Rows(responses)) = 1
        /\ \E c \in Rows(candidates) :
              \A r \in Rows(responses) : responses[r].candidate_id # c

-----------------------------------------------------------------------------
(* Properties of get_candidate_result and get_all_results *)

\* the result the specification describes for a stored response: the score,
\* the verdict of each stored answer and the percentage
Breakdown(response_id) ==
    LET response == responses[response_id]
        total_questions == Len(response.answers)
    IN [correct_answers |-> response.score,
        breakdown |-> [i \in DOMAIN response.answers |-> response.answers[i].isCorrect],
        percentage |-> IF total_questions > 0
                       THEN (response.score * 100) \div total_questions
                       ELSE 0]

\* C18: get_candidate_result returns 404 when the candidate id is unknown or
\* the candidate has no response, and for a candidate that has a response
\* it succeeds with the score, the per-question breakdown and the percentage
\* of that response
C18_ResultOfCandidate ==
    Answered(1, "get_candidate_result") =>
        LET candidate_id == request[1]
            response_id == ResponseOfCandidate(candidate_id)
        IN IF candidate_id \notin Rows(candidates) \/ response_id = 0
           THEN result[1].status = 404
           ELSE /\ result[1].status = 200
                /\ result[1].payload = Breakdown(response_id)

\* the parts of C18 the handler keeps: 404 for an unknown candidate and for
\* a candidate without a response
C18_MissingIs404 ==
    Answered(1, "get_candidate_result") =>
        LET candidate_id == request[1]
        IN (candidate_id \notin Rows(candidates)
              \/ ResponseOfCandidate(candidate_id) = 0)
           => result[1].status = 404

\* the percentage of every row of a listing is 0 for a response without
\* stored answers and between 0 and 100 otherwise
ListPercentages ==
    Answered(1, "get_all_results") /\ result[1].status = 200 =>
        \A i \in DOMAIN result[1].payload :
            LET row == result[1].payload[i]
            IN /\ row.score_percentage \in 0 .. 100
               /\ Len(responses[row.id].answers) = 0 => row.score_percentage = 0

\* C19: the reported percentage is 0, and no error is raised, when a response
\* has no stored answers, in get_candidate_result and in get_all_results;
\* otherwise the percentage lies between 0 and 100
C19_PercentageBounded ==
    /\ ListPercentages
    /\ Answered(1, "get_candidate_result") =>
           LET candidate_id == request[1]
               response_id == ResponseOfCandidate(candidate_id)
           IN (candidate_id \in Rows(candidates) /\ response_id # 0) =>
                 /\ result[1].status = 200
                 /\ result[1].payload.percentage \in 0 .. 100
                 /\ Len(responses[response_id].answers) = 0
                       => result[1].payload.percentage = 0

\* the rows are those of the responses ids, one each, the most recent first
Lists(rows, ids) ==
    /\ Len(rows) = Cardinality(ids)
    /\ { rows[i].id : i \in DOMAIN rows } = ids
    /\ \A i, j \in DOMAIN rows :
          i < j => responses[rows[i].id].answered_at > responses[rows[j].id].answered_at

\* the responses to the test of a code
ResponsesTo(code) ==
    { r \in Rows(responses) : tests[responses[r].test_id].test_code = code }

\* C20 as stated: get_all_results returns one row per stored response, most
\* recent first; with a test_code it returns exactly the responses to the
\* test of that code, and 404 when no stored test has the code
C20_ListedAndFiltered ==
    Answered(1, "get_all_results") =>
        LET code == request[1]
        IN IF code = None
           THEN result[1].status = 200 /\ Lists(result[1].payload, Rows(responses))
           ELSE IF TestByCode(code[1]) = 0
           THEN result[1].status = 404
           ELSE result[1].status = 200
                /\ Lists(result[1].payload, ResponsesTo(code[1]))

\* C20, amended: the same for a test_code that is not empty; an empty
\* test_code is no filter
C20_ListedAndFilteredByNonEmptyCode ==
    Answered(1, "get_all_results") =>
        LET code == request[1]
        IN IF code = None \/ code = Some("")
           THEN result[1].status = 200 /\ Lists(result[1].payload, Rows(responses))
           ELSE IF TestByCode(code[1]) = 0
           THEN result[1].status = 404
           ELSE result[1].status = 200
                /\ Lists(result[1].payload, ResponsesTo(code[1]))

\* a listing of two responses to one test that leaves out a response to
\* another test
C20_Witness ==
    /\ Answered(1, "get_all_results")
    /\ request[1] \notin {None, Some("")}
    /\ result[1].status = 200
    /\ Len(result[1].payload) = 2
    /\ Rows(responses) \ ResponsesTo(request[1][1]) # {}

-----------------------------------------------------------------------------
(* Properties of the callers *)

\* request slot p takes a request for handler op in this step
Calls(p, op) == Free(p) /\ local'[p].op = op

\* the step left the candidates and responses alone and refused the caller
Refused(p) ==
    /\ UNCHANGED <<candidates, responses>>
    /\ result'[p].status \in {401, 403}
    /\ result'[p].payload = Nil

\* C21: a caller who is not Admin deletes no candidate and no response, a
\* caller who is neither Creator nor Admin reads no result, and submit_test
\* is never refused for want of credentials
C21_RolesGateDeletesAndResults ==
    [][ /\ Calls(1, "delete_candidate") =>
              \A caller \in Callers \ {"Admin"} :
                  \A candidate_id \in 1 .. next_id.candidates :
                      delete_candidate_route(1, caller, candidate_id) => Refused(1)
        /\ Calls(1, "delete_response") =>
              \A caller \in Callers \ {"Admin"} :
                  \A response_id \in 1 .. next_id.responses :
                      delete_response_route(1, caller, response_id) => Refused(1)
        /\ Calls(1, "get_candidate_result") =>
              \A caller \in Callers \ {"Admin", "Creator"} :
                  \A candidate_id \in 1 .. next_id.candidates :
                      get_candidate_result_route(1, caller, candidate_id)
                         => Refused(1)
        /\ Calls(1, "get_all_results") =>
              \A caller \in Callers \ {"Admin", "Creator"} :
                  \A code \in TestCodeQueries :
                      get_all_results_route(1, caller, code) => Refused(1)
        /\ Calls(1, "submit_test") => result'[1].status \notin {401, 403}
      ]_vars

\* an authenticated caller who is not Admin was refused the deletion of a
\* stored response
C21_Witness ==
    /\ Answered(1, "delete_response")
    /\ result[1].status = 403
    /\ request[1] \in Rows(responses)

-----------------------------------------------------------------------------
(* Properties of the order of the validations of submit_test *)

\* C22: submit_test resolves the test before it checks the name: a
\* submission whose testId no stored test has ends with 404 whatever its
\* name is, and the 400 of an empty name is returned only when the test exists
C22_TestResolvedBeforeName ==
    Answered(1, "submit_test") =>
        /\ TestByCode(request[1].testId) = 0 => result[1].status = 404
        /\ (result[1].status = 400 /\ result[1].error = "name")
              => TestByCode(request[1].testId) # 0

-----------------------------------------------------------------------------
(* Properties of the name of a candidate who submits again *)

\* C23: a submission under an email that a candidate row has leaves that row
\* as it is, also when it carries another name; the new response references
\* the row, and the success payload reports the id and the name of the row
C23_FirstSeenNameKept ==
    [][ \A p \in Procs :
          /\ Submits(p) => candidates' = candidates
          /\ (pc[p] = "st_respond" /\ ~local[p].created) =>
                LET c == CandidateByEmail(request[p].email)
                IN /\ c # 0
                   /\ candidates' = candidates
                   /\ Accepted(p)' =>
                        /\ responses'[result'[p].id].candidate_id = c
                        /\ result'[p].payload.candidate_id = c
                        /\ result'[p].payload.name = candidates[c].name
                        /\ result'[p].payload.email = candidates[c].email ]_vars

\* an accepted submission under the email of a candidate stored with another
\* name
C23_Witness ==
    \E p \in Procs :
        /\ Accepted(p)
        /\ ~local[p].created
        /\ strip(request[p].name) # candidates[local[p].candidate].name
        /\ candidates[local[p].candidate].email = request[p].email
        /\ result[p].payload.name = candidates[local[p].candidate].name

-----------------------------------------------------------------------------
(* Properties of the time taken *)

\* C24: every stored response has time_taken >= 0
C24_TimeTakenNonNegative ==
    \A r \in Rows(responses) : responses[r].time_taken >= 0

\* the characters 0 .. 9
Digits == {"0", "1", "2", "3", "4", "5", "6", "7", "8", "9"}

\* the two decimal digits of n, for n below 100
Padded(n) == <<Digit(n \div 10), Digit(n % 10)>>

\* text has the shape MM:SS
ShapeMMSS(text) ==
    /\ Len(text) = 5
    /\ text[3] = ":"
    /\ \A i \in {1, 2, 4, 5} : text[i] \in Digits

\* the rows of a listing and the time taken of their responses
ListedTimes ==
    IF Answered(1, "get_all_results") /\ result[1].status = 200
    THEN { [s |-> responses[result[1].payload[i].id].time_taken,
            text |-> result[1].payload[i].time_taken_formatted] :
           i \in DOMAIN result[1].payload }
    ELSE {}

\* C25: format_time(s) for s >= 0 is the decimal of s followed by s below a
\* minute, and from a minute on the minutes and the seconds, each padded to
\* two digits, joined by a colon, which has the shape MM:SS for every stored
\* time taken
C25_FormatTime ==
    \A t \in ListedTimes :
        t.s >= 0 =>
            IF t.s < 60
            THEN t.text = (IF t.s < 10 THEN <<Digit(t.s)>> ELSE Padded(t.s))
                             \o <<"s">>
            ELSE /\ ShapeMMSS(t.text)
                 /\ t.text = Padded(t.s \div 60) \o <<":">> \o Padded(t.s % 60)

\* the part of C25 that format_time keeps: below a hundred minutes
FormatTimeBelow6000 ==
    \A t \in ListedTimes :
        (t.s >= 0 /\ t.s < 6000) =>
            IF t.s < 60
            THEN t.text = (IF t.s < 10 THEN <<Digit(t.s)>> ELSE Padded(t.s))
                             \o <<"s">>
            ELSE /\ ShapeMMSS(t.text)
                 /\ t.text = Padded(t.s \div 60) \o <<":">> \o Padded(t.s % 60)

-----------------------------------------------------------------------------
(* Properties of the stored answers and the score *)

\* the questionIds of the stored answers of a response
GradedIds(response_id) ==
    { responses[response_id].answers[i].questionId :
        i \in DOMAIN responses[response_id].answers }

\* C26: in every stored response each frozen question is graded at most once:
\* no questionId occurs twice in the stored answers, so that the score is at
\* most the number of the questions answered
C26_GradedAtMostOnce ==
    \A r \in Rows(responses) :
        /\ \A i, j \in DOMAIN responses[r].answers :
              i # j => responses[r].answers[i].questionId
                          # responses[r].answers[j].questionId
        /\ responses[r].score <= Cardinality(GradedIds(r))

\* correct/total of a stored response, in decimal digits (both below 10)
ScoreText(response_id) ==
    <<Digit(responses[response_id].score), "/",
      Digit(Len(responses[response_id].answers))>>

\* C27: every stored response has a score between 0 and the number of its
\* stored answers, equal to the number of them that are correct, and a stored
\* answer is correct exactly when its selected option is its correct option;
\* the correct/total strings of submit_test and of get_all_results are both
\* the one of the stored response
C27_ScoreCountsCorrectAnswers ==
    /\ \A r \in Rows(responses) :
          LET answers == responses[r].answers
          IN /\ responses[r].score \in 0 .. Len(answers)
             /\ responses[r].score
                   = Cardinality({i \in DOMAIN answers : answers[i].isCorrect})
             /\ \A i \in DOMAIN answers :
                   answers[i].isCorrect <=> (answers[i].selected = answers[i].correct)
    /\ Accepted(1) => result[1].payload.score = ScoreText(result[1].id)
    /\ (Answered(1, "get_all_results") /\ result[1].status = 200) =>
          \A i \in DOMAIN result[1].payload :
              result[1].payload[i].score = ScoreText(result[1].payload[i].id)

\* a listing with the row 1/2 of a response of two stored answers, one of
\* them correct
C27_Witness ==
    /\ Answered(1, "get_all_results")
    /\ result[1].status = 200
    /\ \E i \in DOMAIN result[1].payload :
          /\ result[1].payload[i].score = <<"1", "/", "2">>
          /\ responses[result[1].payload[i].id].score = 1
          /\ Len(responses[result[1].payload[i].id].answers) = 2

-----------------------------------------------------------------------------
(* Properties of the categories *)

\* C28: no two stored categories have names that are equal when compared
\* without case after trimming
C28_CategoryNamesDistinct ==
    \A c1, c2 \in Rows(categories) :
        c1 # c2 => lower(strip(categories[c1].name))
                      # lower(strip(categories[c2].name))

\* no two stored categories have the same name, character by character
CategoryNamesDistinctExactly ==
    \A c1, c2 \in Rows(categories) :
        c1 # c2 => categories[c1].name # categories[c2].name

-----------------------------------------------------------------------------
(* Properties of update_user *)

\* slot p takes an update_user request in this step
UpdatesUser(p) == Calls(p, "update_user")

\* C30: a caller who is not Admin changes no user's role_id and no field of
\* another user's row through update_user, and an update_user request that
\* returns 400 or 403 leaves the users as they are, whatever fields it
\* carried before the one that was refused
C30_OnlyAdminChangesRoles ==
    [][ \A p \in Procs :
          UpdatesUser(p) =>
             LET caller == request'[p].caller
             IN /\ (caller = 0 \/ role_name(caller) # "Admin") =>
                      /\ \A u \in Rows(users) : users'[u].role_id = users[u].role_id
                      /\ \A u \in Rows(users) \ {caller} : users'[u] = users[u]
                /\ Rows(users') = Rows(users)
                /\ result'[p].status \in {400, 403} => users' = users ]_vars

\* a Creator was refused the change of their own role_id in a request that
\* carried a new name and a new password before it
C30_Witness ==
    /\ Answered(1, "update_user")
    /\ result[1].status = 403
    /\ request[1].caller = request[1].user_id
    /\ role_name(request[1].caller) = "Creator"
    /\ request[1].body.role_id = Some(1)
    /\ request[1].body.name # None
    /\ users[request[1].user_id].name # request[1].body.name[1]

-----------------------------------------------------------------------------
(* Properties of the stored questions *)

\* the row has a text, options that all have a text, and a correct option
\* of one character that is a key of its options
WellFormed(row) ==
    /\ ~IsBlank(row.question_text)
    /\ DOMAIN row.options # {}
    /\ \A key \in DOMAIN row.options : ~IsBlank(row.options[key])
    /\ Len(row.correct_option) = 1
    /\ row.correct_option \in DOMAIN row.options

\* C29: every stored question is well formed after every create_question
\* and update_question, and an update_question request that returns 400 or
\* 404 leaves the stored questions as they are
C29_StoredQuestionsWellFormed ==
    [][ /\ \A q \in Rows(questions') : WellFormed(questions'[q])
        /\ \A p \in Procs :
              (Calls(p, "update_question") /\ result'[p].status \in {400, 404})
                 => questions' = questions ]_vars

\* an update_question request was refused for its category after its text,
\* its options and its correct option had passed, and the stored question has
\* none of them
C29_Witness ==
    /\ Answered(1, "update_question")
    /\ result[1].status = 404
    /\ result[1].error = "category"
    /\ request[1].question_id \in Rows(questions)
    /\ request[1].body.question_text # None
    /\ questions[request[1].question_id].question_text
          # request[1].body.question_text[1]
    /\ request[1].body.correct_option # None
    /\ questions[request[1].question_id].correct_option
          # request[1].body.correct_option[1]

====
